---- MODULE Spec2Model ----
(***************************************************************************)
(* NodeNetworkConfigurationPolicy (resources/                              *)
(* node_network_configuration_policy.py): the desired-state builder, the   *)
(* applier, the status watcher and the clean-up engine, as one sequential  *)
(* state machine.  A caller invokes the public operations one at a time;   *)
(* an operation that talks to the cluster runs in steps, one per external  *)
(* call, and the cluster's answer to each call is a nondeterministic       *)
(* choice.                                                                 *)
(*                                                                         *)
(* Python dicts are objects: self.iface, the entries of self.ifaces and    *)
(* the entries of desired_state["interfaces"] may be the same object.  The *)
(* interface objects a caller (a subclass) assigns to self.iface live in   *)
(* `heap`; ifaces holds references, desired_state holds references or      *)
(* literal dicts (the fresh dicts clean_up and _absent_interface build).   *)
(***************************************************************************)
EXTENDS Integers, Sequences, FiniteSets, TLC

---------------------------------------------------------------------------
(* Bounds of the model *)

\* interface objects a caller assigns to self.iface in one behaviour
MaxObjs == 2
\* operations (set_interface, to_dict, apply, an ipv4_dhcp assignment) a caller
\* invokes on the policy besides entering and leaving the with-block
MaxOps == 1
\* the same for a policy created with teardown disabled, whose __exit__ does
\* nothing: its with-block is followed through a longer body
MaxOpsKept == 2

(* Program constants *)

\* apply: TimeoutSampler(timeout=3, sleep=1, ...)
ApplyTimeout == 3
ApplySleep == 1
\* wait_for_conditions / wait_for_status_success: TimeoutSampler(timeout=30, sleep=1, ...)
WaitTimeout == 30
WaitSleep == 1

---------------------------------------------------------------------------
(* Values *)

\* names a caller gives to the policy's own interfaces (a bridge, a NIC)
IfaceNames == {"br1", "eth0"}
\* what "cat /sys/class/net/<port>/mtu" prints, stripped
MtuValues == {"1500", "9000"}

\* int(), on the strings above
MtuInt(str) ==
  CASE str = "1500" -> 1500
    [] str = "9000" -> 9000

None == "None"
NoRef == 0

\* a dict key that is not there
Unset == [unset |-> TRUE]

\* Interface.State
UP == "up"
DOWN == "down"
ABSENT == "absent"

\* Conditions.Reason
SUCCESS == "SuccessfullyConfigured"
FAILED == "FailedToConfigure"

\* exceptions
TimeoutExpiredError == "TimeoutExpiredError"
NNCPConfigurationFailed == "NNCPConfigurationFailed"
ApiError == "ApiError"
KeyError == "KeyError"
TypeError == "TypeError"
AttributeError == "AttributeError"
StopIteration == "StopIteration"

\* the {dhcp, enabled} flags a node reports for a port
FlagValues ==
  { [dhcp |-> FALSE, enabled |-> TRUE],
    [dhcp |-> TRUE, enabled |-> TRUE] }

EmptyMap == [x \in {} |-> 0]

\* the values of ipv4_addresses: no address, one static address
AddressLists == {<<>>, <<[ip |-> "10.1.2.3", prefix_length |-> 24]>>}

Range(s) == { s[k] : k \in 1..Len(s) }

VARIABLES
  \* constructor arguments; a caller may assign ipv4_addresses later, the
  \* others are never assigned afterwards
  teardown, mtu, ports, node_active_nics, ipv4_enable, ipv6_enable,
  ipv4_addresses, node_selector,
  \* fields of the policy object
  worker_pods, selector, ipv4_dhcp, ipv4_iface_state, mtu_dict,
  iface, ifaces, heap, desired_state,
  \* the resource in the remote store: "none", "live" or "deleted"
  remote,
  \* the managed scope: "new" before __enter__, "in" after it returned,
  \* "failed" after it raised, "out" after __exit__
  scope,
  \* the operations the caller has invoked so far
  ops,
  \* control: the running operation and its position
  ctl,
  \* how the last operation ended
  result,
  \* what happened during the running (or last) operation
  h

cfgVars == <<teardown, mtu, ports, node_active_nics, ipv4_enable, ipv6_enable,
             ipv4_addresses, node_selector, worker_pods, selector>>
objVars == <<ipv4_dhcp, ipv4_iface_state, mtu_dict, iface, ifaces, heap, desired_state>>
vars == <<cfgVars, objVars, remote, scope, ops, ctl, result, h>>

---------------------------------------------------------------------------
(* The desired-state builder *)

IsRef(e) == "ref" \in DOMAIN e

\* i["name"] of an entry of desired_state["interfaces"]
EntryName(hp, e) == IF IsRef(e) THEN hp[e.ref].name ELSE e.name

\* the dict an entry stands for
Resolve(hp, e) == IF IsRef(e) THEN hp[e.ref] ELSE e

\* set_interface as a bug would have it: append without dropping the old entry
set_interface_keep(hp, ds, interface) == Append(ds, interface)

\* set_interface: drop the entry of the same name, append the interface
set_interface(hp, ds, interface) ==
  LET keep(e) == ~(EntryName(hp, e) = EntryName(hp, interface))
  IN Append(SelectSeq(ds, keep), interface)

\* a to_dict that writes the address field whatever the list holds
ToDictIpv4_always ==
  [enabled |-> ipv4_enable, dhcp |-> ipv4_dhcp, address |-> ipv4_addresses]

\* the ipv4 settings to_dict writes on the primary interface
ToDictIpv4 ==
  IF ipv4_addresses # <<>>
    THEN [enabled |-> ipv4_enable, dhcp |-> ipv4_dhcp, address |-> ipv4_addresses]
    ELSE [enabled |-> ipv4_enable, dhcp |-> ipv4_dhcp]

\* the exception to_dict raises, or None
ToDictRaises ==
  IF selector = Unset THEN AttributeError
  ELSE IF iface = NoRef THEN TypeError
  ELSE None

ToDictHeap ==
  [heap EXCEPT ![iface].ipv4 = ToDictIpv4,
               ![iface].ipv6 = [enabled |-> ipv6_enable]]

ToDictDesired == set_interface(heap, desired_state, [ref |-> iface])

\* self.iface in self.ifaces: the same object, or an equal dict
IfaceInIfaces(hp) ==
  \E k \in 1..Len(ifaces) : ifaces[k] = iface \/ hp[ifaces[k]] = hp[iface]

ToDictIfaces ==
  IF IfaceInIfaces(ToDictHeap) THEN ifaces ELSE Append(ifaces, iface)

\* the document: the node selector and the desired state, as serialised
Doc(hp, ds) ==
  [nodeSelector |-> selector,
   interfaces |-> [k \in 1..Len(ds) |-> Resolve(hp, ds[k])]]

NoDoc == [nodeSelector |-> Unset, interfaces |-> <<>>]

---------------------------------------------------------------------------
(* Control and history *)

C0 ==
  [pc |-> "idle", top |-> "none", cuRet |-> "none", apRet |-> "none",
   pend |-> None, i |-> 0, j |-> 0, w |-> 0, t |-> 0]

H0 ==
  [\* clean_up: how often each interface object was marked absent
   marks |-> [r \in 1..MaxObjs |-> 0],
   \* the last document sent to the store, and by which call
   lastDoc |-> NoDoc,
   lastCall |-> "none",
   \* apply: the store's answer to the last update, the updates sent
   lastUpd |-> "none",
   tries |-> 0,
   \* clean_up runs started
   cleanups |-> 0,
   \* __enter__: the step that raised, and the exception it raised
   failedAt |-> "none",
   raised |-> None,
   \* clean_up: a timeout of the deletion wait / of apply was caught
   caughtWait |-> FALSE,
   caughtApply |-> FALSE,
   \* clean_up: a document with an absent interface was sent, a deletion
   \* wait ended after it, delete was called
   absentSent |-> FALSE,
   waited |-> FALSE,
   deleted |-> FALSE,
   \* the status watcher: conditions were seen, the samples of the reason
   condSeen |-> FALSE,
   sample |-> "none",
   \* validate_create: the (node, interface object) pairs confirmed up
   up |-> {},
   \* wait_for_interface_deleted: the pairs wait_until_deleted was called for
   tried |-> {},
   \* the ipv4_dhcp setter: the value it found and the value assigned
   assigned |-> Unset,
   \* _absent_interface, the last pass: the flags the first node reported
   \* for the ports, and the ports whose flags differed from the backup on
   \* any node
   seen1 |-> EmptyMap,
   changedAny |-> {}]

Idle == ctl.pc = "idle"

\* the history of one apply and one _absent_interface, forgotten once clean_up
\* has gone on
Forget(hh) ==
  [hh EXCEPT !.tries = 0, !.lastUpd = "none",
             !.seen1 = EmptyMap, !.changedAny = {}]

Goto(c) ==
  /\ ctl' = c
  /\ UNCHANGED <<result, scope>>

ScopeAfter(out) ==
  CASE ctl.top = "enter" -> IF out = "returned" THEN "in" ELSE "failed"
    [] ctl.top = "exit" -> "out"
    [] OTHER -> scope

\* the running operation ends with outcome out ("ok", "returned" or an exception)
Ended(out) ==
  /\ ctl' = C0
  /\ result' = [op |-> ctl.top, out |-> out]
  /\ scope' = ScopeAfter(out)

---------------------------------------------------------------------------
(* __init__ *)

InitSelector(ns, pods) ==
  IF ns # None
    THEN IF ns \in Range(pods)
           THEN [key |-> "kubernetes.io/hostname", value |-> ns]
           ELSE Unset
    ELSE [key |-> "node-role.kubernetes.io/worker", value |-> ""]

InitWorkerPods(ns, pods) ==
  IF ns # None /\ ns \in Range(pods) THEN <<ns>> ELSE pods

\* the object __init__ leaves
Constructed(ns, pods) ==
  /\ node_selector = ns
  /\ worker_pods = InitWorkerPods(ns, pods)
  /\ selector = InitSelector(ns, pods)
  /\ ipv4_iface_state = EmptyMap
  /\ mtu_dict = EmptyMap
  /\ iface = NoRef
  /\ ifaces = <<>>
  /\ heap = <<>>
  /\ desired_state = <<>>
  /\ ops = 0
  /\ ctl = C0
  /\ result = [op |-> "none", out |-> "ok"]
  /\ h = H0

\* a policy used in a with-block: __enter__, the body, __exit__
Init ==
  /\ teardown \in BOOLEAN
  \* mtu=None is 0 here: "if self.mtu" takes both the same way
  /\ mtu \in {0, 9000}
  /\ ports \in {<<>>, <<"eth1">>}
  /\ node_active_nics \in {{}, {"eth0"}}
  /\ ipv4_enable \in BOOLEAN
  /\ ipv6_enable = FALSE
  /\ ipv4_addresses \in AddressLists
  /\ ipv4_dhcp \in BOOLEAN
  /\ \E pods \in {<<"n1">>, <<"n1", "n2">>}, ns \in {None, "n1", "n3"} :
       /\ Constructed(ns, pods)
       \* the configurations checked: every combination of teardown, mtu,
       \* node_active_nics and ipv4_dhcp for one pod and one port; the two
       \* values of ipv4_dhcp for two pods; a policy without ports; a policy
       \* with IPv4 enabled and a static address; a policy with a node
       \* selector that names one of two pods, or none of them
       /\ Len(pods) = 2 => teardown /\ mtu = 0 /\ node_active_nics = {} /\ ports # <<>>
       /\ ports = <<>> => teardown /\ mtu = 0 /\ node_active_nics = {} /\ ~ipv4_dhcp
       /\ ipv4_enable <=> ipv4_addresses # <<>>
       /\ ipv4_enable =>
            /\ mtu = 0 /\ node_active_nics = {} /\ ~ipv4_dhcp
            /\ ports # <<>> /\ Len(pods) = 1
       /\ ns # None =>
            /\ ~ipv4_enable /\ ~ipv4_dhcp
            /\ Len(pods) = 2
  /\ remote = "none"
  /\ scope = "new"

---------------------------------------------------------------------------
(* Operations without external calls *)

\* the operations a caller may still invoke
Budget == IF teardown THEN MaxOps ELSE MaxOpsKept

\* a caller (a subclass's to_dict) assigns a new dict to self.iface
AssignIface ==
  /\ Idle
  /\ scope \in {"new", "in"}
  /\ Len(heap) < MaxObjs
  /\ \E n \in IfaceNames :
       heap' = Append(heap, [name |-> n, state |-> UP, ipv4 |-> Unset, ipv6 |-> Unset])
  /\ iface' = Len(heap) + 1
  /\ h' = H0
  /\ result' = [op |-> "assign", out |-> "ok"]
  /\ UNCHANGED <<cfgVars, ipv4_dhcp, ipv4_iface_state, mtu_dict, ifaces,
                 desired_state, remote, scope, ops, ctl>>

\* the caller calls set_interface with a dict of its own
CallSetInterface ==
  /\ Idle
  /\ scope = "in"
  /\ ops < Budget
  /\ ops' = ops + 1
  /\ \E n \in {"br1"}, s \in {UP, DOWN} :
       /\ desired_state' = set_interface(heap, desired_state, [name |-> n, state |-> s])
       /\ result' = [op |-> "set_interface", out |-> "ok",
                     arg |-> [name |-> n, state |-> s]]
  /\ h' = H0
  /\ UNCHANGED <<cfgVars, ipv4_dhcp, ipv4_iface_state, mtu_dict, iface, ifaces,
                 heap, remote, scope, ctl>>

\* to_dict, its effect on the object
ToDictEffect ==
  /\ heap' = ToDictHeap
  /\ desired_state' = ToDictDesired
  /\ ifaces' = ToDictIfaces

\* the caller calls to_dict, before entering the with-block or in its body
CallToDict ==
  /\ Idle
  /\ scope \in {"new", "in"}
  /\ ops < Budget
  /\ ops' = ops + 1
  /\ h' = H0
  /\ IF ToDictRaises # None
       THEN /\ result' = [op |-> "to_dict", out |-> ToDictRaises]
            /\ UNCHANGED <<heap, desired_state, ifaces>>
       ELSE /\ result' = [op |-> "to_dict", out |-> "ok",
                          before |-> heap[iface].ipv4]
            /\ ToDictEffect
  /\ UNCHANGED <<cfgVars, ipv4_dhcp, ipv4_iface_state, mtu_dict, iface,
                 remote, scope, ctl>>

\* the caller assigns another list to ipv4_addresses
SetAddresses ==
  /\ Idle
  /\ scope = "in"
  /\ ops < Budget
  /\ ops' = ops + 1
  /\ \E a \in AddressLists \ {ipv4_addresses} : ipv4_addresses' = a
  /\ h' = H0
  /\ result' = [op |-> "set_addresses", out |-> "ok"]
  /\ UNCHANGED <<teardown, mtu, ports, node_active_nics, ipv4_enable, ipv6_enable,
                 node_selector, worker_pods, selector, objVars, remote, scope, ctl>>

---------------------------------------------------------------------------
(* The cluster's answers *)

\* what a node reports for the managed ports: currentState.interfaces,
\* restricted to the names in self.ports
Observations == [Range(ports) -> FlagValues]

PodSet == Range(worker_pods)

\* the index of the first pod whose NodeNetworkState cannot be read, or 0
FailPoints == 0..Len(worker_pods)

\* the answers of the store to create, update and delete
CreateAnswers == IF remote = "live" THEN {"error"} ELSE {"ok", "error"}
UpdateAnswers == IF remote = "live" THEN {"ok", "conflict", "error"} ELSE {"error"}
DeleteAnswers == {"ok", "error"}

\* TimeoutSampler (resources.utils): having sampled at time t, it raises
\* TimeoutExpiredError when the window ends before the next sample is due; a
\* slow probe uses up the window early
SamplerExpired(t, sleep, timeout, slow) == slow \/ t + sleep >= timeout

---------------------------------------------------------------------------
(* _ipv4_state_backup *)

\* the table after a backup that read obs[n] from each node and failed at
\* pod number failAt (0: none failed); the node's entry is reset before the read
ipv4_state_backup(obs, failAt) ==
  LET done == { worker_pods[k] : k \in { x \in 1..Len(worker_pods) : failAt = 0 \/ x <= failAt } }
      old == DOMAIN ipv4_iface_state
  IN [n \in old \cup done |->
        IF n \in done
          THEN IF failAt # 0 /\ n = worker_pods[failAt] THEN EmptyMap ELSE obs[n]
          ELSE ipv4_iface_state[n]]

---------------------------------------------------------------------------
(* clean_up, the loop over self.ifaces *)

\* clean_up skips the interface: its name is one of the node's active NICs
Skips(r) == heap[r].name \in node_active_nics

\* the loop from position i on: the next interface it does not skip gets
\* _absent_interface; after the last one comes self.delete()
CleanUpLoop(c, i) ==
  LET todo == { k \in i..Len(ifaces) : ~Skips(ifaces[k]) }
  IN IF todo = {}
       THEN [c EXCEPT !.pc = "cu_delete", !.i = Len(ifaces) + 1, !.j = 0, !.w = 0, !.t = 0,
                      !.apRet = "none"]
       ELSE [c EXCEPT !.pc = "ab_bridge", !.j = 1, !.w = 0, !.t = 0, !.apRet = "none",
                      !.i = CHOOSE k \in todo : \A m \in todo : k <= m]

---------------------------------------------------------------------------
(* apply *)

\* apply returns: to the caller, or into clean_up's wait_for_interface_deleted
ApplyReturns ==
  IF ctl.apRet = "absent"
    THEN Goto([ctl EXCEPT !.pc = "cu_wait", !.w = 1, !.apRet = "none", !.t = 0])
    ELSE Ended("ok")

\* an except clause that takes nothing
CleanUpCatches_nothing(e) == FALSE

\* clean_up's except clause takes exception e raised under _absent_interface
CleanUpCatches(e) == e = TimeoutExpiredError

\* apply raises e: clean_up's except clause takes it, or it propagates
ApplyRaises(e) ==
  IF ctl.apRet = "absent" /\ CleanUpCatches(e)
    THEN Goto(CleanUpLoop(ctl, ctl.i + 1))
    ELSE Ended(e)

\* the caller calls apply
CallApply ==
  /\ Idle
  /\ scope = "in"
  /\ ops < Budget
  /\ ops' = ops + 1
  /\ h' = H0
  /\ Goto([C0 EXCEPT !.pc = "ap_todict", !.top = "apply", !.apRet = "direct"])
  /\ UNCHANGED <<cfgVars, objVars, remote>>

\* resource = self.to_dict()
ApplyToDict ==
  /\ ctl.pc = "ap_todict"
  /\ IF ToDictRaises # None
       THEN /\ ApplyRaises(ToDictRaises)
            /\ UNCHANGED <<heap, desired_state, ifaces>>
       ELSE /\ Goto([ctl EXCEPT !.pc = "ap_update", !.t = 0])
            /\ ToDictEffect
  /\ h' = [h EXCEPT !.tries = 0, !.lastUpd = "none"]
  /\ UNCHANGED <<cfgVars, ipv4_dhcp, ipv4_iface_state, mtu_dict, iface, remote, ops>>

\* an apply that goes on sampling after a successful update
ApplyStopsAt_never(answer) == FALSE

\* the samples apply takes before it returns: the first one
ApplyStopsAt(answer) == answer = "ok"

\* a document that marks an interface absent
HasAbsent(doc) == \E k \in 1..Len(doc.interfaces) :
  "state" \in DOMAIN doc.interfaces[k] /\ doc.interfaces[k].state = ABSENT

\* one sample of the TimeoutSampler in apply: self.update(resource_dict=resource)
ApplyUpdate ==
  /\ ctl.pc = "ap_update"
  /\ \E answer \in UpdateAnswers, slow \in BOOLEAN :
       LET doc == Doc(heap, desired_state)
           expired == SamplerExpired(ctl.t, ApplySleep, ApplyTimeout, slow)
           caught == ctl.apRet = "absent" /\ CleanUpCatches(TimeoutExpiredError)
       IN /\ h' = [h EXCEPT !.tries = @ + 1, !.lastUpd = answer,
                            !.lastDoc = doc, !.lastCall = "update",
                            !.absentSent = @ \/ (ctl.apRet = "absent" /\ HasAbsent(doc)),
                            !.caughtApply = @ \/ (answer = "conflict" /\ expired /\ caught)]
          /\ CASE ApplyStopsAt(answer) -> ApplyReturns
               [] answer = "error" -> ApplyRaises(ApiError)
               [] OTHER ->
                    IF expired
                      THEN ApplyRaises(TimeoutExpiredError)
                      ELSE Goto([ctl EXCEPT !.t = @ + ApplySleep])
  /\ UNCHANGED <<cfgVars, objVars, remote, ops>>

---------------------------------------------------------------------------
(* ipv4_dhcp (setter) *)

\* a setter that acts on every assignment
SetterActs_always(v) == TRUE

\* the setter acts: the value assigned differs from the current one
SetterActs(v) == v # ipv4_dhcp

\* the caller assigns policy.ipv4_dhcp = v; the policy has an interface
CallSetDhcp ==
  /\ Idle
  /\ scope = "in"
  /\ iface # NoRef
  /\ ops < Budget
  /\ ops' = ops + 1
  /\ \E v \in BOOLEAN :
       /\ h' = [H0 EXCEPT !.assigned = [old |-> ipv4_dhcp, new |-> v]]
       /\ IF ~SetterActs(v)
         THEN /\ result' = [op |-> "setter", out |-> "ok"]
              /\ UNCHANGED <<objVars, ctl, scope>>
         ELSE /\ ipv4_dhcp' = v
              /\ IF v
                   THEN \E obs \in [PodSet -> Observations], failAt \in FailPoints :
                          /\ ipv4_iface_state' = ipv4_state_backup(obs, failAt)
                          /\ IF failAt # 0
                               THEN /\ result' = [op |-> "setter", out |-> ApiError]
                                    /\ UNCHANGED <<heap, desired_state, ctl, scope>>
                               ELSE /\ heap' = [heap EXCEPT ![iface].ipv4 =
                                                  [dhcp |-> TRUE, enabled |-> TRUE]]
                                    /\ desired_state' =
                                         set_interface(heap, desired_state, [ref |-> iface])
                                    /\ Goto([C0 EXCEPT !.pc = "ap_todict", !.top = "setter",
                                                       !.apRet = "setter"])
                   ELSE /\ desired_state' = set_interface(heap, desired_state, [ref |-> iface])
                        /\ Goto([C0 EXCEPT !.pc = "ap_todict", !.top = "setter",
                                           !.apRet = "setter"])
                        /\ UNCHANGED <<ipv4_iface_state, heap>>
              /\ UNCHANGED <<mtu_dict, iface, ifaces>>
  /\ UNCHANGED <<cfgVars, remote>>

---------------------------------------------------------------------------
(* __enter__ *)

\* an __enter__ without the except clause: the exception leaves at once
EnterHandles_reraise(e) == Ended(e)

\* an exception raised inside __enter__'s try block: the except clause logs
\* it and calls clean_up, whatever teardown says
EnterHandles(e) ==
  Goto([ctl EXCEPT !.pc = "cu_mtu", !.cuRet = "enter", !.pend = e, !.w = 0, !.t = 0])

\* the caller enters the managed scope; first step: the DHCP backup
CallEnter ==
  /\ Idle
  /\ scope = "new"
  /\ IF ipv4_dhcp
       THEN \E obs \in [PodSet -> Observations], failAt \in FailPoints :
              /\ ipv4_iface_state' = ipv4_state_backup(obs, failAt)
              /\ IF failAt # 0
                   THEN /\ ctl' = C0
                        /\ result' = [op |-> "enter", out |-> ApiError]
                        /\ scope' = "failed"
                        /\ h' = [H0 EXCEPT !.failedAt = "backup", !.raised = ApiError]
                   ELSE /\ Goto([C0 EXCEPT !.pc = "en_mtu", !.top = "enter"])
                        /\ h' = H0
       ELSE /\ Goto([C0 EXCEPT !.pc = "en_mtu", !.top = "enter"])
            /\ h' = H0
            /\ UNCHANGED ipv4_iface_state
  /\ UNCHANGED <<cfgVars, ipv4_dhcp, mtu_dict, iface, ifaces, heap, desired_state,
                 remote, ops>>

\* mtu_dict with the first k ports read on a pod
MtuRead(vals, k) ==
  [p \in DOMAIN mtu_dict \cup { ports[m] : m \in 1..k } |->
     IF \E m \in 1..k : ports[m] = p THEN vals[p] ELSE mtu_dict[p]]

\* the MTU backup: pod.execute on every pod for every port; an execute may fail
EnterMtu ==
  /\ ctl.pc = "en_mtu"
  /\ IF mtu # 0 /\ worker_pods # <<>> /\ ports # <<>>
       THEN \E vals \in [Range(ports) -> MtuValues], fail \in BOOLEAN, k \in 0..Len(ports) :
              /\ fail => (k < Len(ports) \/ Len(worker_pods) > 1)
              /\ ~fail => k = Len(ports)
              /\ mtu_dict' = MtuRead(vals, k)
              /\ IF fail
                   THEN /\ Ended(ApiError)
                        /\ h' = [h EXCEPT !.failedAt = "mtu", !.raised = ApiError]
                   ELSE /\ Goto([ctl EXCEPT !.pc = "en_create"])
                        /\ UNCHANGED h
       ELSE /\ Goto([ctl EXCEPT !.pc = "en_create"])
            /\ UNCHANGED <<mtu_dict, h>>
  /\ UNCHANGED <<cfgVars, ipv4_dhcp, ipv4_iface_state, iface, ifaces, heap,
                 desired_state, remote, ops>>

\* super().__enter__(): the resource is created from to_dict()
EnterCreate ==
  /\ ctl.pc = "en_create"
  /\ IF ToDictRaises # None
       THEN /\ Ended(ToDictRaises)
            /\ h' = [h EXCEPT !.failedAt = "create", !.raised = ToDictRaises]
            /\ UNCHANGED <<heap, desired_state, ifaces, remote>>
       ELSE /\ ToDictEffect
            /\ \E answer \in CreateAnswers :
                 /\ h' = [h EXCEPT !.lastDoc = Doc(ToDictHeap, ToDictDesired),
                                   !.lastCall = "create",
                                   !.failedAt = IF answer = "ok" THEN @ ELSE "create",
                                   !.raised = IF answer = "ok" THEN @ ELSE ApiError]
                 /\ IF answer = "ok"
                      THEN /\ remote' = "live"
                           /\ Goto([ctl EXCEPT !.pc = "en_conditions", !.t = 0])
                      ELSE /\ Ended(ApiError)
                           /\ UNCHANGED remote
  /\ UNCHANGED <<cfgVars, ipv4_dhcp, ipv4_iface_state, mtu_dict, iface, ops>>

---------------------------------------------------------------------------
(* The status watcher *)

\* status(): the reason of the Available condition; None when there is none
Reasons == {None, "Progressing", SUCCESS, FAILED}

\* a watcher that does not know the failure reason
StatusVerdict_blind(sample) == IF sample = SUCCESS THEN "return" ELSE "again"

\* what wait_for_status_success does with a sample
StatusVerdict(sample) ==
  CASE sample = SUCCESS -> "return"
    [] sample = FAILED -> "raise"
    [] OTHER -> "again"

\* wait_for_conditions: one sample of instance.status.conditions
EnterConditions ==
  /\ ctl.pc = "en_conditions"
  /\ \E present \in BOOLEAN, slow \in BOOLEAN :
       IF present
         THEN /\ Goto([ctl EXCEPT !.pc = "en_status", !.t = 0])
              /\ h' = [h EXCEPT !.condSeen = TRUE]
         ELSE IF SamplerExpired(ctl.t, WaitSleep, WaitTimeout, slow)
                THEN /\ EnterHandles(TimeoutExpiredError)
                     /\ h' = [h EXCEPT !.failedAt = "conditions",
                                       !.raised = TimeoutExpiredError]
                ELSE /\ Goto([ctl EXCEPT !.t = @ + WaitSleep])
                     /\ UNCHANGED h
  /\ UNCHANGED <<cfgVars, objVars, remote, ops>>

\* wait_for_status_success: one sample of status()
EnterStatus ==
  /\ ctl.pc = "en_status"
  /\ \E sample \in Reasons, slow \in BOOLEAN :
       CASE StatusVerdict(sample) = "return" ->
              /\ Goto([ctl EXCEPT !.pc = "en_validate", !.w = 1])
              /\ h' = [h EXCEPT !.sample = sample]
         [] StatusVerdict(sample) = "raise" ->
              /\ EnterHandles(NNCPConfigurationFailed)
              /\ h' = [h EXCEPT !.sample = sample, !.failedAt = "status",
                                !.raised = NNCPConfigurationFailed]
         [] OTHER ->
              IF SamplerExpired(ctl.t, WaitSleep, WaitTimeout, slow)
                THEN /\ EnterHandles(TimeoutExpiredError)
                     /\ h' = [h EXCEPT !.sample = sample, !.failedAt = "status",
                                       !.raised = TimeoutExpiredError]
                ELSE /\ Goto([ctl EXCEPT !.t = @ + WaitSleep])
                     /\ h' = [h EXCEPT !.sample = sample]
  /\ UNCHANGED <<cfgVars, objVars, remote, ops>>

\* the (pod, interface) pairs of validate_create and wait_for_interface_deleted
PairCount == Len(worker_pods) * Len(ifaces)
PairPod(w) == worker_pods[((w - 1) \div Len(ifaces)) + 1]
PairIface(w) == ifaces[((w - 1) % Len(ifaces)) + 1]

\* a validate_create that confirms the first pair only
ValidateDone_first(w) == w > 1

\* the pairs validate_create confirms before __enter__ returns: all of them
ValidateDone(w) == w > PairCount

\* validate_create: wait_until_up for one (pod, interface) pair, then return self
EnterValidate ==
  /\ ctl.pc = "en_validate"
  /\ IF ValidateDone(ctl.w)
       THEN /\ Ended("returned")
            /\ UNCHANGED h
       ELSE \E isUp \in BOOLEAN :
              IF isUp
                THEN /\ Goto([ctl EXCEPT !.w = @ + 1])
                     /\ h' = [h EXCEPT !.up = @ \cup {<<PairPod(ctl.w), PairIface(ctl.w)>>}]
                ELSE /\ EnterHandles(TimeoutExpiredError)
                     /\ h' = [h EXCEPT !.failedAt = "validate",
                                       !.raised = TimeoutExpiredError]
  /\ UNCHANGED <<cfgVars, objVars, remote, ops>>

---------------------------------------------------------------------------
(* __exit__ and clean_up *)

\* __exit__ runs clean_up
ExitCleans == teardown

\* the caller leaves the managed scope
CallExit ==
  /\ Idle
  /\ scope = "in"
  /\ h' = H0
  /\ IF ExitCleans
       THEN /\ ctl' = [C0 EXCEPT !.pc = "cu_mtu", !.top = "exit", !.cuRet = "exit"]
            /\ UNCHANGED <<result, scope>>
       ELSE /\ result' = [op |-> "exit", out |-> "ok"]
            /\ scope' = "out"
            /\ UNCHANGED ctl
  /\ UNCHANGED <<cfgVars, objVars, remote, ops>>

\* the ports clean_up gives an MTU entry before mtu_dict[port] raises KeyError
MtuCount ==
  LET ok(k) == \A m \in 1..k : ports[m] \in DOMAIN mtu_dict
  IN CHOOSE k \in 0..Len(ports) : ok(k) /\ (k = Len(ports) \/ ~ok(k + 1))

RECURSIVE PushPorts(_, _, _)
PushPorts(hp, ds, k) ==
  IF k = 0 THEN ds
  ELSE set_interface(hp, PushPorts(hp, ds, k - 1),
         [name |-> ports[k], type |-> "ethernet", state |-> UP,
          mtu |-> MtuInt(mtu_dict[ports[k]])])

\* clean_up, the MTU entries
CleanUpMtu ==
  /\ ctl.pc = "cu_mtu"
  /\ h' = [h EXCEPT !.cleanups = @ + 1]
  /\ IF mtu # 0
       THEN /\ desired_state' = PushPorts(heap, desired_state, MtuCount)
            /\ IF MtuCount < Len(ports)
                 THEN Ended(KeyError)
                 ELSE Goto(CleanUpLoop(ctl, 1))
       ELSE /\ Goto(CleanUpLoop(ctl, 1))
            /\ UNCHANGED desired_state
  /\ UNCHANGED <<cfgVars, ipv4_dhcp, ipv4_iface_state, mtu_dict, iface, ifaces,
                 heap, remote, ops>>

\* the interfaces _absent_interface marks absent: every one in self.ifaces
Marks(r) == TRUE

\* the first pod whose backup lacks the node or a port the node reports, or 0
FirstKeyError ==
  LET bad(k) == \/ worker_pods[k] \notin DOMAIN ipv4_iface_state
                \/ \E p \in Range(ports) : p \notin DOMAIN ipv4_iface_state[worker_pods[k]]
  IN IF \E k \in 1..Len(worker_pods) : bad(k)
       THEN CHOOSE k \in 1..Len(worker_pods) : bad(k) /\ \A m \in 1..(k - 1) : ~bad(m)
       ELSE 0

\* a comparison that never sees a change
Changed_never(n, p, flags) == FALSE

\* the port's flags on the node differ from the backup
Changed(n, p, flags) == ipv4_iface_state[n][p] # flags

\* temp_ipv4_iface_state[n]: the ports of node n whose flags changed
ChangedOn(obs, n) == { p \in Range(ports) : Changed(n, p, obs[n][p]) }

\* previous_state = next(iter(temp_ipv4_iface_state.values())): the first node's
PreviousState(obs) == ChangedOn(obs, worker_pods[1])

RECURSIVE Restore(_, _, _, _)
Restore(hp, ds, S, k) ==
  IF k = 0 THEN ds
  ELSE LET d == Restore(hp, ds, S, k - 1)
       IN IF ports[k] \in S
            THEN set_interface(hp, d,
                   [name |-> ports[k], ipv4 |-> ipv4_iface_state[worker_pods[1]][ports[k]]])
            ELSE d

\* _absent_interface: one pass of the loop over self.ifaces, then self.apply()
AbsentBridge ==
  /\ ctl.pc = "ab_bridge"
  /\ ctl.j <= Len(ifaces)
  /\ LET r == ifaces[ctl.j]
         \* after the last pass comes self.apply()
         next == IF ctl.j = Len(ifaces)
                   THEN [ctl EXCEPT !.pc = "ap_todict", !.apRet = "absent", !.j = 0]
                   ELSE [ctl EXCEPT !.j = @ + 1]
         hp1 == IF Marks(r) THEN [heap EXCEPT ![r].state = ABSENT] ELSE heap
         ds1 == IF Marks(r) THEN set_interface(hp1, desired_state, [ref |-> r])
                ELSE desired_state
         h1 == [h EXCEPT !.marks[r] = IF Marks(r) THEN @ + 1 ELSE @]
     IN /\ heap' = hp1
        /\ IF ~ipv4_dhcp
             THEN /\ desired_state' = ds1
                  /\ h' = h1
                  /\ Goto(next)
             ELSE \E obs \in [PodSet -> Observations], fail \in BOOLEAN :
                    CASE fail /\ worker_pods # <<>> ->
                           \* the first node's NodeNetworkState cannot be read
                           /\ desired_state' = ds1
                           /\ h' = h1
                           /\ Ended(ApiError)
                      [] ~fail /\ FirstKeyError # 0 ->
                           /\ desired_state' = ds1
                           /\ h' = h1
                           /\ Ended(KeyError)
                      [] ~fail /\ FirstKeyError = 0 /\ worker_pods = <<>> ->
                           \* next(iter({}.values()))
                           /\ desired_state' = ds1
                           /\ h' = h1
                           /\ Ended(StopIteration)
                      [] ~fail /\ FirstKeyError = 0 /\ worker_pods # <<>> ->
                           /\ desired_state' =
                                Restore(hp1, ds1, PreviousState(obs), Len(ports))
                           /\ h' = [h1 EXCEPT
                                      !.seen1 = obs[worker_pods[1]],
                                      !.changedAny = UNION { ChangedOn(obs, n) : n \in PodSet }]
                           /\ Goto(next)
                      [] OTHER -> FALSE
  /\ UNCHANGED <<cfgVars, ipv4_dhcp, ipv4_iface_state, mtu_dict, iface, ifaces,
                 remote, ops>>

\* wait_for_interface_deleted: wait_until_deleted for one (pod, interface) pair;
\* clean_up's except clause takes its TimeoutExpiredError
CleanUpWait ==
  /\ ctl.pc = "cu_wait"
  /\ IF ctl.w > PairCount
       THEN /\ Goto(CleanUpLoop(ctl, ctl.i + 1))
            /\ h' = [Forget(h) EXCEPT !.waited = TRUE]
       ELSE \E gone \in BOOLEAN :
              LET pair == <<PairPod(ctl.w), PairIface(ctl.w)>>
                  hw == [Forget(h) EXCEPT !.tried = @ \cup {pair}]
              IN IF gone
                   THEN /\ Goto([ctl EXCEPT !.w = @ + 1])
                        /\ h' = hw
                   ELSE IF CleanUpCatches(TimeoutExpiredError)
                          THEN /\ Goto(CleanUpLoop(ctl, ctl.i + 1))
                               /\ h' = [hw EXCEPT !.waited = TRUE, !.caughtWait = TRUE]
                          ELSE /\ Ended(TimeoutExpiredError)
                               /\ h' = [hw EXCEPT !.waited = TRUE]
  /\ UNCHANGED <<cfgVars, objVars, remote, ops>>

\* clean_up, self.delete(); then clean_up returns, and __enter__'s except
\* clause re-raises what it caught
CleanUpDelete ==
  /\ ctl.pc = "cu_delete"
  /\ \E answer \in DeleteAnswers :
       /\ h' = [Forget(h) EXCEPT !.deleted = TRUE, !.lastCall = "delete"]
       /\ IF answer = "ok"
            THEN /\ remote' = IF remote = "live" THEN "deleted" ELSE remote
                 /\ Ended(IF ctl.cuRet = "enter" THEN ctl.pend ELSE "ok")
            ELSE /\ UNCHANGED remote
                 /\ Ended(ApiError)
  /\ UNCHANGED <<cfgVars, objVars, ops>>

---------------------------------------------------------------------------

\* the steps of the operations that talk to the cluster
Steps ==
  \/ ApplyToDict
  \/ ApplyUpdate
  \/ CleanUpMtu
  \/ AbsentBridge
  \/ CleanUpWait
  \/ CleanUpDelete

\* what a caller does to the policy besides entering and leaving the with-block
Body ==
  \/ AssignIface
  \/ CallSetInterface
  \/ SetAddresses
  \/ CallToDict
  \/ CallApply
  \/ CallSetDhcp

Next ==
  \/ CallEnter
  \/ EnterMtu
  \/ EnterCreate
  \/ EnterConditions
  \/ EnterStatus
  \/ EnterValidate
  \/ CallExit
  \/ Body
  \/ Steps

Spec == Init /\ [][Next]_vars

---------------------------------------------------------------------------
(* Properties *)

\* the interfaces of a submitted document that carry state absent
AbsentIn(doc) ==
  { doc.interfaces[k].name : k \in { x \in 1..Len(doc.interfaces) :
      "state" \in DOMAIN doc.interfaces[x] /\ doc.interfaces[x].state = ABSENT } }

\* C1: during a clean_up run (here: the one __exit__ starts) an interface whose name is in node_active_nics is
\* never given state absent, neither in memory nor in a submitted document,
\* and every other interface of ifaces is marked absent once: never twice, and
\* once when the run has ended without an exception.
C1_ActiveNicsKeptOthersOnce ==
  (h.cleanups > 0 /\ (ctl.top = "exit" \/ (Idle /\ result.op = "exit"))) =>
    \A k \in 1..Len(ifaces) :
      LET r == ifaces[k]
      IN IF Skips(r)
           THEN /\ h.marks[r] = 0
                /\ heap[r].state # ABSENT
                /\ heap[r].name \notin AbsentIn(h.lastDoc)
           ELSE /\ h.marks[r] <= 1
                /\ (Idle /\ result.op = "exit" /\ result.out = "ok") => h.marks[r] = 1

\* no two entries of the interface list carry the same name
NamesUnique(hp, ds) ==
  \A a, b \in 1..Len(ds) : EntryName(hp, ds[a]) = EntryName(hp, ds[b]) => a = b

\* the entries of the interface list that carry another name than n
Others(hp, ds, n) ==
  LET other(e) == EntryName(hp, e) # n
  IN SelectSeq(ds, other)

\* the step is a caller's set_interface
IsSetInterface == ops' = ops + 1 /\ ctl' = C0 /\ result'.op = "set_interface"

\* C2: desired_state["interfaces"] never holds two entries of the same name,
\* whatever operations ran; a set_interface call leaves exactly one entry of
\* its name, the dict it was given, and leaves the entries of the other names
\* as they were.
C2_UniqueNamesLastWriteWins ==
  [][ /\ NamesUnique(heap', desired_state')
      /\ IsSetInterface =>
           LET arg == result'.arg
               mine == { k \in 1..Len(desired_state') :
                           EntryName(heap', desired_state'[k]) = arg.name }
           IN /\ Cardinality(mine) = 1
              /\ \A k \in mine : desired_state'[k] = arg
              /\ Others(heap', desired_state', arg.name)
                   = Others(heap, desired_state, arg.name) ]_vars

\* a set_interface call has replaced the entry of the policy's own interface,
\* which carried the same name
C2_Replaced ==
  /\ result.op = "set_interface"
  /\ Len(heap) = 1 /\ heap[1].name = "br1" /\ ifaces = <<1>>
  /\ desired_state = <<result.arg>>

\* C3: wait_for_status_success ends in one of three ways, decided by what the
\* probes return: it returns when a sample is SuccessfullyConfigured, after any
\* number of other samples inside the window; it raises
\* NNCPConfigurationFailed, and samples no further, when a sample is
\* FailedToConfigure; and when no condition appears, or no terminal reason,
\* before the window ends, it raises TimeoutExpiredError.
C3_ThreeOutcomes ==
  [][ /\ ctl.pc = "en_conditions" =>
           \/ h'.condSeen /\ ctl'.pc = "en_status"
           \/ /\ ~h'.condSeen
              /\ \/ ctl'.pc = "en_conditions" /\ ctl'.t = ctl.t + WaitSleep
                                              /\ ctl'.t < WaitTimeout
                 \/ ctl'.pc = "cu_mtu" /\ ctl'.pend = TimeoutExpiredError
      /\ ctl.pc = "en_status" =>
           /\ h.condSeen
           /\ CASE h'.sample = SUCCESS -> ctl'.pc = "en_validate"
                [] h'.sample = FAILED ->
                     ctl'.pc = "cu_mtu" /\ ctl'.pend = NNCPConfigurationFailed
                [] OTHER ->
                     \/ ctl'.pc = "en_status" /\ ctl'.t = ctl.t + WaitSleep
                                              /\ ctl'.t < WaitTimeout
                     \/ ctl'.pc = "cu_mtu" /\ ctl'.pend = TimeoutExpiredError ]_vars

\* the watcher has returned on SuccessfullyConfigured after two samples of
\* other reasons
C3_SuccessAfterPolls ==
  ctl.pc = "en_validate" /\ ctl.t = 2 * WaitSleep /\ h.sample = SUCCESS

\* the steps of __enter__ inside its try block
TrySteps == {"conditions", "status", "validate"}

\* __enter__ has raised
EnterRaised == Idle /\ result.op = "enter" /\ result.out # "returned"

C5_NoTeardownLeavesResource ==
  ~teardown =>
    /\ \A r \in 1..Len(heap) : h.marks[r] = 0 /\ heap[r].state # ABSENT
    /\ ~h.absentSent
    /\ ~h.deleted
    /\ remote # "deleted"

\* the step is a deletion wait that times out: wait_until_deleted has not
\* returned, so the wait has not moved on to the next pair
WaitTimesOut ==
  /\ ctl.pc = "cu_wait" /\ ctl.w <= PairCount
  /\ ~(ctl'.pc = "cu_wait" /\ ctl'.w = ctl.w + 1)

\* C6: a TimeoutExpiredError of the deletion wait does not leave clean_up: the
\* loop goes on with the next interface, or with self.delete() when there is
\* none left; self.delete() is called in the step after, and a clean_up that
\* caught the timeout ends without having called delete only when a later
\* _absent_interface raised another exception than TimeoutExpiredError.
C6_WaitTimeoutStillDeletes ==
  [][ /\ WaitTimesOut =>
           /\ h'.caughtWait
           /\ ctl'.pc \in {"ab_bridge", "cu_delete"}
           /\ (\A k \in (ctl.i + 1)..Len(ifaces) : Skips(ifaces[k])) => ctl'.pc = "cu_delete"
      /\ ctl.pc = "cu_delete" => h'.deleted
      /\ (ctl.pc # "idle" /\ ctl'.pc = "idle" /\ h'.caughtWait /\ ~h'.deleted) =>
           result'.out \in {ApiError, KeyError, StopIteration} ]_vars

\* a deletion wait has timed out and the resource was deleted after it
C6_CaughtThenDeleted ==
  Idle /\ result.op = "exit" /\ h.caughtWait /\ h.deleted /\ remote = "deleted"

\* the entry _absent_interface builds to restore port p from the backup
RestoreEntry(p) == [name |-> p, ipv4 |-> ipv4_iface_state[worker_pods[1]][p]]

\* the entries of the interface list that carry the name n
Named(hp, ds, n) ==
  LET same(e) == EntryName(hp, e) = n
  IN SelectSeq(ds, same)

OneNodeDhcp == ipv4_dhcp /\ Len(worker_pods) = 1

\* the step is a pass of _absent_interface that did not raise
PassDone == ctl.pc = "ab_bridge" /\ ctl'.pc # "idle"

\* C7: for a DHCP-enabled policy on one node, a pass of _absent_interface
\* puts into the desired state, for every port whose flags on the node differ
\* from the backup, an entry with the port's name and the backed-up flags, and
\* leaves the entries of a port whose flags equal the backup as they were;
\* the document the teardown apply submits holds the restore entries.
C7_RestoresChangedPorts ==
  [][ /\ (OneNodeDhcp /\ PassDone) =>
           \A p \in Range(ports) :
             IF ipv4_iface_state[worker_pods[1]][p] # h'.seen1[p]
               THEN Named(heap', desired_state', p) = <<RestoreEntry(p)>>
               ELSE Named(heap', desired_state', p) = Named(heap, desired_state, p)
      /\ (OneNodeDhcp /\ ctl.pc = "ap_update" /\ ctl.apRet = "absent") =>
           \A p \in Range(ports) :
             ipv4_iface_state[worker_pods[1]][p] # h.seen1[p] =>
               \E k \in 1..Len(h'.lastDoc.interfaces) :
                 h'.lastDoc.interfaces[k] = RestoreEntry(p) ]_vars

\* the backup holds {dhcp: false, enabled: true} for eth1 on the one node, the
\* node now reports dhcp true, and the document the teardown apply has
\* submitted holds eth1 with the backed-up flags
C7_Eth1Restored ==
  /\ OneNodeDhcp
  /\ ctl.top = "exit" /\ ctl.pc = "cu_wait" /\ h.lastCall = "update"
  /\ ipv4_iface_state["n1"]["eth1"] = [dhcp |-> FALSE, enabled |-> TRUE]
  /\ h.seen1["eth1"] = [dhcp |-> TRUE, enabled |-> TRUE]
  /\ \E k \in 1..Len(h.lastDoc.interfaces) :
       h.lastDoc.interfaces[k] =
         [name |-> "eth1", ipv4 |-> [dhcp |-> FALSE, enabled |-> TRUE]]

\* __enter__ has returned the policy
EnterReturned == Idle /\ result.op = "enter" /\ result.out = "returned"

\* C8: __enter__ returns only after the status wait has seen
\* SuccessfullyConfigured and wait_until_up has returned for every pod and
\* every interface of ifaces; when the status wait or the confirmation has
\* failed, __enter__ raises and the scope is not entered.
C8_ReturnsOnlyWhenUp ==
  /\ EnterReturned =>
       /\ scope = "in"
       /\ h.failedAt = "none"
       /\ h.condSeen /\ h.sample = SUCCESS
       /\ \A n \in PodSet : \A k \in 1..Len(ifaces) : <<n, ifaces[k]>> \in h.up
  /\ (Idle /\ result.op = "enter" /\ h.failedAt \in TrySteps) =>
       /\ result.out \in {TimeoutExpiredError, NNCPConfigurationFailed, ApiError,
                          KeyError, StopIteration}
       /\ scope = "failed"
  /\ scope = "in" => remote = "live"

\* __enter__ has returned for a policy on two nodes with two interfaces
C8_ReturnedTwoByTwo ==
  EnterReturned /\ Len(worker_pods) = 2 /\ Len(ifaces) = 2 /\ Cardinality(h.up) = 4

\* C9: every sample of apply submits the current desired-state document; apply
\* submits again only after a write conflict and inside the window; it
\* returns at the first update that succeeds; an update that fails with
\* another error makes it raise that error at once; when the window ends on a
\* conflict it raises TimeoutExpiredError.
C9_RetriesOnlyOnConflict ==
  [][ ctl.pc = "ap_update" =>
        /\ h'.lastDoc = Doc(heap, desired_state)
        /\ h'.tries = h.tries + 1
        /\ h'.tries * ApplySleep <= ApplyTimeout
        /\ h.tries > 0 => h.lastUpd = "conflict"
        /\ CASE h'.lastUpd = "ok" ->
                  IF ctl.apRet = "absent"
                    THEN ctl'.pc = "cu_wait"
                    ELSE ctl'.pc = "idle" /\ result'.out = "ok"
             [] h'.lastUpd = "error" ->
                  ctl'.pc = "idle" /\ result'.out = ApiError
             [] OTHER ->
                  \/ /\ ctl'.pc = "ap_update"
                     /\ ctl'.t = ctl.t + ApplySleep
                     /\ ctl'.t < ApplyTimeout
                  \/ IF ctl.apRet = "absent"
                       THEN h'.caughtApply /\ ctl'.pc \in {"ab_bridge", "cu_delete"}
                       ELSE ctl'.pc = "idle" /\ result'.out = TimeoutExpiredError ]_vars

\* apply has returned at its third update, after two write conflicts
C9_ThirdUpdateSucceeds ==
  /\ Idle /\ result.op = "apply" /\ result.out = "ok"
  /\ h.tries = 3 /\ h.lastUpd = "ok"

\* C10: when __exit__ tears down a policy that has an interface to remove,
\* delete is called only after a document with an absent interface was
\* submitted and a deletion wait has ended.
C10_DeleteAfterAbsentAndWait ==
  ( /\ teardown
    /\ ctl.top = "exit" \/ (Idle /\ result.op = "exit")
    /\ \E k \in 1..Len(ifaces) : ~Skips(ifaces[k])
    /\ h.deleted ) =>
  (h.absentSent /\ h.waited)

\* the step has built a document: to_dict has run to its end, called by the
\* caller, by apply or by the creation of the resource
Built ==
  \/ Idle /\ ctl' = C0 /\ ops' = ops + 1
          /\ result'.op = "to_dict" /\ result'.out = "ok"
  \/ ctl.pc = "ap_todict" /\ ctl'.pc = "ap_update"
  \/ ctl.pc = "en_create" /\ h'.lastCall = "create"

\* C11: in every document to_dict builds, the ipv4 settings of the primary
\* interface hold an address field exactly when ipv4_addresses is not empty,
\* and the field is that list; the primary interface with these settings is
\* an entry of the document.
C11_AddressIffNonEmpty ==
  [][ Built =>
        LET v == heap'[iface'].ipv4
            doc == Doc(heap', desired_state')
        IN /\ ("address" \in DOMAIN v) <=> (ipv4_addresses' # <<>>)
           /\ ipv4_addresses' # <<>> => v.address = ipv4_addresses'
           /\ v.enabled = ipv4_enable /\ v.dhcp = ipv4_dhcp
           /\ \E k \in 1..Len(doc.interfaces) :
                /\ doc.interfaces[k].name = heap'[iface'].name
                /\ doc.interfaces[k].ipv4 = v ]_vars

\* to_dict has built the document without an address field for an interface
\* whose settings held one from an earlier build
C11_AddressDropped ==
  /\ Idle /\ result.op = "to_dict" /\ result.out = "ok"
  /\ "address" \in DOMAIN result.before
  /\ ipv4_addresses = <<>>
  /\ "address" \notin DOMAIN heap[iface].ipv4

\* _absent_interface has made its last pass and its apply has not returned yet
TeardownApplying == ctl.apRet = "absent" /\ ctl.pc \in {"ap_todict", "ap_update"}

\* C12: for a DHCP-enabled policy, every port whose flags differ from the
\* backup on any targeted node has, in the desired state the teardown apply
\* submits, an entry that carries flags backed up for that port.
C12_RestoresChangesOfAnyNode ==
  (ipv4_dhcp /\ TeardownApplying) =>
    \A p \in h.changedAny :
      \E k \in 1..Len(desired_state) :
        /\ ~IsRef(desired_state[k])
        /\ desired_state[k].name = p
        /\ "ipv4" \in DOMAIN desired_state[k]
        /\ desired_state[k].ipv4 \in { ipv4_iface_state[n][p] : n \in PodSet }

\* the entry clean_up builds for port p from the MTU backup
MtuEntry(p) ==
  [name |-> p, type |-> "ethernet", state |-> UP, mtu |-> MtuInt(mtu_dict[p])]

\* C13: when __exit__ tears down a policy with an MTU override and the
\* teardown documents were accepted, the last document submitted before the
\* delete holds, for every managed port, the entry with the backed-up MTU.
C13_MtuEntrySubmitted ==
  ( /\ mtu # 0 /\ teardown
    /\ ctl.top = "exit" \/ (Idle /\ result.op = "exit")
    /\ h.deleted /\ h.waited /\ ~h.caughtApply ) =>
  \A p \in Range(ports) :
    \E k \in 1..Len(h.lastDoc.interfaces) : h.lastDoc.interfaces[k] = MtuEntry(p)

\* a clean_up that was started has ended, with the operation that ran it
CleanUpEnded == Idle /\ result.op \in {"exit", "enter"} /\ h.cleanups > 0

\* C14: a clean_up that has started has called delete when it ends, whatever
\* failed on the way.
C14_CleanUpEndsWithDelete ==
  (teardown /\ CleanUpEnded) => h.deleted

\* C15: when a clean_up in which a deletion wait timed out has gone on to
\* delete, and every teardown document was accepted, wait_until_deleted was
\* called for every pair of a targeted node and an interface of ifaces that is
\* not an active NIC.
C15_EveryPairWaitedFor ==
  (h.caughtWait /\ ~h.caughtApply /\ h.deleted) =>
    \A n \in PodSet : \A k \in 1..Len(ifaces) :
      ~Skips(ifaces[k]) => <<n, ifaces[k]>> \in h.tried

\* C16: a timeout leaves the operation at every wait site but the deletion
\* wait of clean_up: apply called by the caller or by the ipv4_dhcp setter
\* raises it when its window ends on a conflict, __enter__ raises the timeout
\* of its waits once clean_up has returned, and clean_up does not take the
\* timeout of the apply it runs.
C16_TimeoutsPropagate ==
  /\ (Idle /\ result.op \in {"apply", "setter"} /\ h.lastUpd = "conflict") =>
       result.out = TimeoutExpiredError
  /\ (Idle /\ result.op = "enter" /\ h.raised = TimeoutExpiredError
           /\ (h.cleanups > 0 => h.deleted /\ remote = "deleted")) =>
       result.out = TimeoutExpiredError
  /\ ~h.caughtApply

\* the document enables DHCP on the primary interface
EnablesDhcp(doc) ==
  \E k \in 1..Len(doc.interfaces) :
    /\ doc.interfaces[k].name = heap[iface].name
    /\ "ipv4" \in DOMAIN doc.interfaces[k]
    /\ doc.interfaces[k].ipv4.dhcp

\* the backup table holds every targeted node with the flags of its ports
BackupComplete ==
  \A n \in PodSet :
    /\ n \in DOMAIN ipv4_iface_state
    /\ \A p \in Range(ports) : p \in DOMAIN ipv4_iface_state[n]

\* C17: when a document that enables DHCP on the primary interface has been
\* submitted, by the creation or by an update, the backup table is filled for
\* every targeted node.
C17_BackupBeforeDhcp ==
  (h.lastCall \in {"create", "update"} /\ EnablesDhcp(h.lastDoc)) => BackupComplete

\* the step is an assignment to ipv4_dhcp
Assigns == Idle /\ "new" \in DOMAIN h'.assigned

\* C18: an assignment of the value ipv4_dhcp already has submits nothing and
\* leaves the desired state, the interfaces, ifaces and the backup table as
\* they were; an assignment of another value goes into apply at once, unless
\* the backup it starts with fails, and returns only after the store has
\* accepted the updated document.
C18_SetterReappliesOrNothing ==
  [][ /\ (Assigns /\ h'.assigned.new = h'.assigned.old) =>
           /\ ctl' = C0 /\ result' = [op |-> "setter", out |-> "ok"]
           /\ h'.lastCall = "none" /\ h'.tries = 0
           /\ UNCHANGED <<ipv4_dhcp, desired_state, heap, ifaces, ipv4_iface_state>>
      /\ (Assigns /\ h'.assigned.new # h'.assigned.old) =>
           /\ ipv4_dhcp' = h'.assigned.new
           /\ \/ ctl'.pc = "ap_todict" /\ ctl'.top = "setter"
              \/ /\ h'.assigned.new
                 /\ ctl' = C0 /\ result' = [op |-> "setter", out |-> ApiError]
      /\ (ctl.top = "setter" /\ ctl'.pc = "idle" /\ result'.out = "ok") =>
           /\ h'.lastCall = "update" /\ h'.lastUpd = "ok"
           /\ h'.lastDoc = Doc(heap', desired_state')
           /\ ipv4_dhcp' = h'.assigned.new ]_vars

\* the setter was given the value ipv4_dhcp had and has returned
C18_SameValueAssigned ==
  /\ Idle /\ result.op = "setter"
  /\ "new" \in DOMAIN h.assigned
  /\ h.assigned.new = h.assigned.old
  /\ desired_state # <<>> /\ ifaces # <<>>

\* the selector the document is specified to carry
SpecifiedSelector ==
  IF node_selector # None
    THEN [key |-> "kubernetes.io/hostname", value |-> node_selector]
    ELSE [key |-> "node-role.kubernetes.io/worker", value |-> ""]

\* C19: every build of the desired state finds exactly one node selector, the
\* hostname one when node_selector was given and the worker-role one
\* otherwise, and never fails for the lack of one.
C19_OneSelectorNeverMissing ==
  (Idle /\ result.op = "to_dict") =>
    /\ result.out # AttributeError
    /\ selector = SpecifiedSelector

\* the primary interface's entry in a submitted document
PrimaryIn(doc) ==
  {k \in 1..Len(doc.interfaces) : doc.interfaces[k].name = heap[iface].name}

\* C20: after ipv4_dhcp went from False to True, the document the re-apply
\* submits carries ipv4 {dhcp: true, enabled: true} on the primary interface,
\* whatever ipv4_enable is.
C20_ReapplyCarriesDhcpEnabled ==
  ( /\ ctl.top = "setter" \/ (Idle /\ result.op = "setter")
    /\ "new" \in DOMAIN h.assigned
    /\ h.assigned.new /\ ~h.assigned.old
    /\ h.lastCall = "update" ) =>
      /\ PrimaryIn(h.lastDoc) # {}
      /\ \A k \in PrimaryIn(h.lastDoc) :
           h.lastDoc.interfaces[k].ipv4 = [dhcp |-> TRUE, enabled |-> TRUE]

====
